---- MODULE Spec2Model ----
(***************************************************************************)
(* Model of the watch command (bin/watch.js) and of the plugin-package     *)
(* resolver getYarnPackageNames (lib/json.js, known here through its test  *)
(* and its caller in test/fixtures/index.js).                              *)
(*                                                                         *)
(* Strings whose characters matter (paths, package names) are sequences of *)
(* one-character strings, so that prefix tests are computed character by   *)
(* character.                                                              *)
(*                                                                         *)
(* Promises: every site action returns a promise.  A promise is settled by *)
(* the site (Settle), and a registered reaction runs later as its own step *)
(* (RunReaction).  The lines written to the logger and the console are     *)
(* kept as a bag of (message, path) pairs.  A rejection that reaches no    *)
(* handler goes to the runtime's unhandled-rejection path, which on the    *)
(* Node versions this code was written for reports it and lets the process *)
(* run on.                                                                 *)
(***************************************************************************)
EXTENDS Integers, Sequences, FiniteSets, Bags, TLC

VARIABLES started, watcher, themeWatcher, events, discarded, calls, log,
          packageJson, plugins

vars == <<started, watcher, themeWatcher, events, discarded, calls, log,
          packageJson, plugins>>

watchVars == <<started, watcher, themeWatcher, events, discarded, calls, log>>

jsonVars == <<packageJson, plugins>>

\* Bound on the number of filesystem mutations the sessions see in one run.
MaxEvents == 2

\* Bound on the number of names in one dependency list of a manifest.
MaxDeps == 3

-----------------------------------------------------------------------------
(* Strings *)

startsWith(s, p) == Len(s) >= Len(p) /\ SubSeq(s, 1, Len(p)) = p

SEP == "/"

-----------------------------------------------------------------------------
(* Configuration: the four directories of a site. *)

config_path_source == <<"/","p","r","o","j","/","s","r","c">>

config_path_plugins == config_path_source \o <<"/","p","l","u","g">>

config_path_themes == config_path_source \o <<"/","t","h","e","m","e">>

config_path_destination == config_path_source \o <<"/","o","u","t">>

\* The files and directories whose mutation the runs explore.
P_a_md == config_path_source \o <<"/","a",".","m","d">>

P_theme_extra_file == config_path_source \o <<"/","t","h","e","m","e","-","e","x","t","r","a","/","f","i","l","e",".","t","x","t">>

P_theme_file == config_path_themes \o <<"/","f","i","l","e",".","t","x","t">>

P_plugin_file == config_path_plugins \o <<"/","x",".","j","s">>

FsPaths == {P_a_md, P_theme_extra_file, P_theme_file, P_plugin_file, config_path_destination}

Kinds == {"add", "change", "unlink"}

-----------------------------------------------------------------------------
(* The watch library's path matching.  A string given as `ignored` matches *)
(* the path itself and, through the pattern <string>/**, everything below  *)
(* it.  A session reports only what lies in the directories it watches.    *)

matchesBelow(dir, path) ==
    /\ startsWith(path, dir \o <<SEP>>)
    /\ Len(path) > Len(dir) + 1

\* Plain string-prefix matching.
anymatch_stringPrefix(dir, path) == startsWith(path, dir)

anymatch(dir, path) == path = dir \/ matchesBelow(dir, path)

_isIgnored(ignoredList, path) == \E dir \in ignoredList : anymatch(dir, path)

isWatched(paths, path) == \E dir \in paths : anymatch(dir, path)

-----------------------------------------------------------------------------
(* bin/watch.js *)

watcher_paths == {config_path_source}

watcher_ignored_short == {config_path_plugins, config_path_themes}

watcher_ignored == {config_path_plugins, config_path_themes, config_path_destination}

themeWatcher_paths == {config_path_themes}

themeWatcher_ignored == {}

\* Listeners of the source session: none until 'ready' has fired.
watcher_listeners_eager(ready) == {"change", "add", "unlink"}

watcher_listeners(ready) == IF ready THEN {"change", "add", "unlink"} ELSE {}

\* Listeners of the theme session: none until 'ready', then 'change' only.
themeWatcher_listeners_all(ready) == IF ready THEN {"change", "add", "unlink"} ELSE {}

themeWatcher_listeners(ready) == IF ready THEN {"change"} ELSE {}

\* The site action each listener of the source session calls.
siteAction_swapped(kind) ==
    CASE kind = "change" -> "fileChanged"
      [] kind = "add"    -> "fileChanged"
      [] kind = "unlink" -> "fileRemoved"

siteAction(kind) ==
    CASE kind = "change" -> "fileChanged"
      [] kind = "add"    -> "fileAdded"
      [] kind = "unlink" -> "fileRemoved"

logLine(kind) ==
    CASE kind = "change" -> "File changed at: "
      [] kind = "add"    -> "File added at: "
      [] kind = "unlink" -> "File removed at: "

NoPath == <<>>

NewCall(fn, path, ev) ==
    [fn |-> fn, path |-> path, ev |-> ev, state |-> "pending",
     reacted |-> FALSE]

\* History kept with each event: the calls that had rejected when it was emitted.
rejectedCalls == {i \in 1..Len(calls) : calls[i].state = "rejected"}

\* The mutations the sessions have seen so far.
mutations == Len(events) + Cardinality(discarded)

Closed == [open |-> FALSE, ready |-> FALSE, listeners |-> {}]

Init ==
    /\ started = FALSE
    /\ watcher = Closed
    /\ themeWatcher = Closed
    /\ events = <<>>
    /\ discarded = {}
    /\ calls = <<>>
    /\ log = EmptyBag
    /\ packageJson = [x \in {} |-> {}]
    /\ plugins = <<>>

\* module.exports: the body of the command, run once.  yarn.readFiles() is
\* called and its promise is left to settle; both sessions are opened in the
\* same turn.
Start ==
    /\ ~started
    /\ started' = TRUE
    /\ calls' = Append(calls, NewCall("readFiles", NoPath, 0))
    /\ watcher' = [open |-> TRUE, ready |-> FALSE, listeners |-> watcher_listeners(FALSE)]
    /\ themeWatcher' = [open |-> TRUE, ready |-> FALSE, listeners |-> themeWatcher_listeners(FALSE)]
    /\ UNCHANGED <<events, discarded, log, jsonVars>>

\* watcher.on('ready', ...): registers the three listeners.
WatcherReady ==
    /\ watcher.open /\ ~watcher.ready
    /\ watcher' = [watcher EXCEPT !.ready = TRUE, !.listeners = watcher_listeners(TRUE)]
    /\ UNCHANGED <<started, themeWatcher, events, discarded, calls, log, jsonVars>>

\* themeWatcher.on('ready', ...): registers the 'change' listener.
ThemeWatcherReady ==
    /\ themeWatcher.open /\ ~themeWatcher.ready
    /\ themeWatcher' = [themeWatcher EXCEPT !.ready = TRUE,
                                            !.listeners = themeWatcher_listeners(TRUE)]
    /\ UNCHANGED <<started, watcher, events, discarded, calls, log, jsonVars>>

\* The listener puts its call at the head of the calls made so far.
WatcherEmit_lifo(kind, path) ==
    /\ watcher.open
    /\ isWatched(watcher_paths, path)
    /\ ~_isIgnored(watcher_ignored, path)
    /\ mutations < MaxEvents
    /\ events' = Append(events, [session |-> "source", kind |-> kind,
                                 path |-> path, ready |-> watcher.ready,
                                 rejected |-> {}])
    /\ IF kind \in watcher.listeners
       THEN /\ log' = log (+) SetToBag({<<logLine(kind), path>>}) (+) SetToBag({<<"Rebuilding...", NoPath>>})
            /\ calls' = <<NewCall(siteAction(kind), path, Len(events) + 1)>> \o calls
       ELSE UNCHANGED <<calls, log>>
    /\ UNCHANGED <<started, watcher, themeWatcher, discarded, jsonVars>>

\* The listener holds its call back while a file action is still pending.
WatcherEmit_serialized(kind, path) ==
    /\ watcher.open
    /\ isWatched(watcher_paths, path)
    /\ ~_isIgnored(watcher_ignored, path)
    /\ mutations < MaxEvents
    /\ events' = Append(events, [session |-> "source", kind |-> kind,
                                 path |-> path, ready |-> watcher.ready,
                                 rejected |-> rejectedCalls])
    /\ IF /\ kind \in watcher.listeners
          /\ \A i \in 1..Len(calls) :
                calls[i].fn \in {"fileAdded", "fileChanged", "fileRemoved"}
                => calls[i].state # "pending"
       THEN /\ log' = log (+) SetToBag({<<logLine(kind), path>>}) (+) SetToBag({<<"Rebuilding...", NoPath>>})
            /\ calls' = Append(calls, NewCall(siteAction(kind), path, Len(events) + 1))
       ELSE UNCHANGED <<calls, log>>
    /\ UNCHANGED <<started, watcher, themeWatcher, discarded, jsonVars>>

\* A mutation of `path` below the source directory, seen by the source
\* session: dropped when ignored, else emitted as `kind` and handled by the
\* listener of that kind, when there is one.
WatcherEmit(kind, path) ==
    /\ watcher.open
    /\ isWatched(watcher_paths, path)
    /\ IF _isIgnored(watcher_ignored, path)
       THEN /\ path \notin discarded => mutations < MaxEvents
            /\ discarded' = discarded \cup {path}
            /\ UNCHANGED <<events, calls, log>>
       ELSE /\ mutations < MaxEvents
            /\ events' = Append(events, [session |-> "source", kind |-> kind,
                                         path |-> path, ready |-> watcher.ready,
                                         rejected |-> rejectedCalls])
            /\ IF kind \in watcher.listeners
               THEN /\ log' = log (+) SetToBag({<<logLine(kind), path>>}) (+) SetToBag({<<"Rebuilding...", NoPath>>})
                    /\ calls' = Append(calls, NewCall(siteAction(kind), path, Len(events) + 1))
               ELSE UNCHANGED <<calls, log>>
            /\ UNCHANGED discarded
    /\ UNCHANGED <<started, watcher, themeWatcher, jsonVars>>

\* A mutation below the themes directory, seen by the theme session.
ThemeWatcherEmit(kind, path) ==
    /\ themeWatcher.open
    /\ isWatched(themeWatcher_paths, path)
    /\ ~_isIgnored(themeWatcher_ignored, path)
    /\ mutations < MaxEvents
    /\ events' = Append(events, [session |-> "theme", kind |-> kind,
                                 path |-> path, ready |-> themeWatcher.ready,
                                 rejected |-> rejectedCalls])
    /\ IF kind \in themeWatcher.listeners
       THEN /\ log' = log (+) SetToBag({<<"Theme file changed at: ", path>>}) (+) SetToBag({<<"Rebuilding...", NoPath>>})
            /\ calls' = Append(calls, NewCall("readTheme", NoPath, Len(events) + 1))
       ELSE UNCHANGED <<calls, log>>
    /\ UNCHANGED <<started, watcher, themeWatcher, discarded, jsonVars>>

\* The site settles the promise of call i.  No listener is removed and no
\* session is closed, whatever the outcome.
SettleTearDown(i, outcome) ==
    /\ i \in 1..Len(calls)
    /\ calls[i].state = "pending"
    /\ calls' = [calls EXCEPT ![i].state = outcome]
    /\ IF outcome = "rejected" /\ calls[i].fn # "readFiles"
       THEN /\ watcher' = [watcher EXCEPT !.listeners = {}]
            /\ themeWatcher' = [themeWatcher EXCEPT !.listeners = {}]
       ELSE UNCHANGED <<watcher, themeWatcher>>
    /\ UNCHANGED <<started, events, discarded, log, jsonVars>>

\* A rejected action is invoked again.
Settle_retry(i, outcome) ==
    /\ i \in 1..Len(calls)
    /\ calls[i].state = "pending"
    /\ calls' = IF outcome = "rejected" /\ calls[i].ev # 0 /\ Len(calls) < 2 * MaxEvents + 1
                THEN Append([calls EXCEPT ![i].state = outcome],
                            NewCall(calls[i].fn, calls[i].path, calls[i].ev))
                ELSE [calls EXCEPT ![i].state = outcome]
    /\ UNCHANGED <<started, watcher, themeWatcher, events, discarded, log, jsonVars>>

Settle(i, outcome) ==
    /\ i \in 1..Len(calls)
    /\ calls[i].state = "pending"
    /\ calls' = [calls EXCEPT ![i].state = outcome]
    /\ UNCHANGED <<started, watcher, themeWatcher, events, discarded, log, jsonVars>>

\* The reaction registered on the promise of call c, if the promise's state
\* has one: .catch on readFiles, .then(onFulfilled) on the others; build()'s
\* promise has none.
hasReaction_any(c) ==
    CASE c.fn = "readFiles" -> c.state = "rejected"
      [] c.fn = "build"     -> FALSE
      [] OTHER              -> c.state # "pending"

\* readTheme() is called without a .then: no reaction ever runs build().
hasReaction_noThen(c) ==
    CASE c.fn = "readFiles" -> c.state = "rejected"
      [] c.fn = "build"     -> FALSE
      [] c.fn = "readTheme" -> FALSE
      [] OTHER              -> c.state = "resolved"

\* build() is chained without waiting for readTheme() to settle.
hasReaction_eager(c) ==
    CASE c.fn = "readFiles" -> c.state = "rejected"
      [] c.fn = "build"     -> FALSE
      [] c.fn = "readTheme" -> TRUE
      [] OTHER              -> c.state = "resolved"

hasReaction(c) ==
    CASE c.fn = "readFiles" -> c.state = "rejected"
      [] c.fn = "build"     -> FALSE
      [] OTHER              -> c.state = "resolved"

RunReaction(i) ==
    /\ i \in 1..Len(calls)
    /\ ~calls[i].reacted
    /\ hasReaction(calls[i])
    /\ CASE calls[i].fn = "readFiles" ->
              \* console.log(e.stack); throw e
              /\ log' = log (+) SetToBag({<<"e.stack", NoPath>>})
              /\ calls' = [calls EXCEPT ![i].reacted = TRUE]
         [] calls[i].fn = "readTheme" ->
              \* return yarn.build()
              /\ calls' = Append([calls EXCEPT ![i].reacted = TRUE],
                                 NewCall("build", NoPath, calls[i].ev))
              /\ UNCHANGED log
         [] OTHER ->
              /\ log' = log (+) SetToBag({<<"\tdone!", NoPath>>})
              /\ calls' = [calls EXCEPT ![i].reacted = TRUE]
    /\ UNCHANGED <<started, watcher, themeWatcher, events, discarded, jsonVars>>

\* Rejections that no handler takes: they reach the runtime's default path.
unhandledRejections ==
    {i \in 1..Len(calls) :
        /\ calls[i].state = "rejected"
        /\ calls[i].fn = "readFiles" => calls[i].reacted}

Next ==
    \/ Start
    \/ WatcherReady
    \/ ThemeWatcherReady
    \/ \E kind \in Kinds, path \in FsPaths : WatcherEmit(kind, path)
    \/ \E kind \in Kinds, path \in FsPaths : ThemeWatcherEmit(kind, path)
    \/ \E i \in 1..Len(calls), outcome \in {"resolved", "rejected"} : Settle(i, outcome)
    \/ \E i \in 1..Len(calls) : RunReaction(i)

Spec == Init /\ [][Next]_vars

\* The most calls a run can make: readFiles, and for every event at most a
\* readTheme and a build.
MaxCalls == 2 * MaxEvents + 1

\* Runs in which only the theme tree is mutated: both sessions see the
\* mutation, the source session drops it as ignored.
ThemePaths == {path \in FsPaths : isWatched(themeWatcher_paths, path)}

NextTheme ==
    \/ Start
    \/ WatcherReady
    \/ ThemeWatcherReady
    \/ \E kind \in Kinds, path \in ThemePaths : WatcherEmit(kind, path)
    \/ \E kind \in Kinds, path \in ThemePaths : ThemeWatcherEmit(kind, path)
    \/ \E i \in 1..Len(calls), outcome \in {"resolved", "rejected"} : Settle(i, outcome)
    \/ \E i \in 1..Len(calls) : RunReaction(i)

\* The job queue of the runtime runs every reaction whose promise has
\* settled: a reaction that stays enabled is eventually run.
FairThemeSpec ==
    Init /\ [][NextTheme]_vars /\ \A i \in 1..MaxCalls : WF_vars(RunReaction(i))

-----------------------------------------------------------------------------
(* lib/json.js: getYarnPackageNames reads package.json of the given        *)
(* directory and returns the names of its dependencies and                 *)
(* devDependencies that follow the plugin naming convention.  A manifest   *)
(* is a function from the dependency keys it declares to the set of names  *)
(* under that key; versions are dropped.                                   *)

YARN_PREFIX == <<"y","a","r","n","-">>

N_yarn_excerpt == YARN_PREFIX \o <<"e","x","c","e","r","p","t">>

N_yarn_html_minifier == YARN_PREFIX \o <<"h","t","m","l","-","m","i","n","i","f","i","e","r">>

N_yarn_scaffold == YARN_PREFIX \o <<"s","c","a","f","f","o","l","d">>

N_lodash == <<"l","o","d","a","s","h">>

N_mocha == <<"m","o","c","h","a">>

N_Yarn_x == <<"Y","a","r","n","-","x">>

PackageNames == {N_yarn_excerpt, N_yarn_html_minifier, N_yarn_scaffold,
                 N_lodash, N_mocha, N_Yarn_x, YARN_PREFIX}

packageKeys == <<"dependencies", "devDependencies">>

DependencyLists == {S \in SUBSET PackageNames : Cardinality(S) <= MaxDeps}

Manifests ==
    UNION {[D -> DependencyLists] : D \in SUBSET {"dependencies", "devDependencies"}}

\* packageJson[key] || {} : a list the manifest does not declare is empty.
dependencyNames(pkg, key) == IF key \in DOMAIN pkg THEN pkg[key] ELSE {}

\* The naming convention: the prefix followed by a non-empty rest.
isYarnPackage_prefixOnly(name) == startsWith(name, YARN_PREFIX)

isYarnPackage(name) == startsWith(name, YARN_PREFIX) /\ Len(name) > Len(YARN_PREFIX)

Range(f) == {f[i] : i \in DOMAIN f}

\* Every plugin name of a list is pushed, also one the result already has.
RECURSIVE addNames_noDedupe(_, _)
addNames_noDedupe(acc, names) ==
    IF names = {} THEN acc
    ELSE LET n == CHOOSE x \in names : TRUE
         IN addNames_noDedupe(IF isYarnPackage(n) THEN Append(acc, n) ELSE acc,
                              names \ {n})

\* Adds the plugin names of one list to the result, each name once.
RECURSIVE addNames(_, _)
addNames(acc, names) ==
    IF names = {} THEN acc
    ELSE LET n == CHOOSE x \in names : TRUE
         IN addNames(IF isYarnPackage(n) /\ n \notin Range(acc) THEN Append(acc, n) ELSE acc,
                     names \ {n})

RECURSIVE collect(_, _, _)
collect(pkg, keys, acc) ==
    IF keys = <<>> THEN acc
    ELSE collect(pkg, Tail(keys), addNames(acc, dependencyNames(pkg, Head(keys))))

\* Object.keys(packageJson[key]) without the default: a TypeError when a list
\* is not declared.
getYarnPackageNames_throwing(pkg) ==
    IF DOMAIN pkg = {"dependencies", "devDependencies"}
    THEN [threw |-> FALSE, names |-> collect(pkg, packageKeys, <<>>)]
    ELSE [threw |-> TRUE, names |-> <<>>]

getYarnPackageNames(pkg) == [threw |-> FALSE, names |-> collect(pkg, packageKeys, <<>>)]

\* Bound on the number of times the resolver is called on one manifest.
MaxResolves == 2

InitJson ==
    /\ started = FALSE
    /\ watcher = Closed
    /\ themeWatcher = Closed
    /\ events = <<>>
    /\ discarded = {}
    /\ calls = <<>>
    /\ log = EmptyBag
    /\ packageJson \in Manifests
    /\ plugins = <<>>

\* let plugins = json.getYarnPackageNames(rootDir)
GetYarnPackageNames ==
    /\ Len(plugins) < MaxResolves
    /\ plugins' = Append(plugins, getYarnPackageNames(packageJson))
    /\ UNCHANGED <<packageJson, watchVars>>

NextJson == GetYarnPackageNames

SpecJson == InitJson /\ [][NextJson]_vars

-----------------------------------------------------------------------------
(* Vocabulary of the properties *)

CallIds == 1..Len(calls)

EventIds == 1..Len(events)

\* The site actions invoked while handling event j.
CallsOf(j) == {i \in CallIds : calls[i].ev = j}

FileActions == {"fileAdded", "fileChanged", "fileRemoved"}

\* Path containment by path segments, computed apart from the watch
\* library's matching: the segments of root are the first segments of path.
RECURSIVE split(_, _, _)
split(s, cur, acc) ==
    IF s = <<>> THEN Append(acc, cur)
    ELSE IF Head(s) = SEP THEN split(Tail(s), <<>>, Append(acc, cur))
    ELSE split(Tail(s), Append(cur, Head(s)), acc)

segments(path) == split(path, <<>>, <<>>)

containedIn(path, root) ==
    LET a == segments(root)
        b == segments(path)
    IN Len(b) >= Len(a) /\ SubSeq(b, 1, Len(a)) = a

IgnoredRoots == {config_path_plugins, config_path_themes, config_path_destination}

readFilesRejected == \E i \in CallIds : calls[i].fn = "readFiles" /\ calls[i].state = "rejected"

-----------------------------------------------------------------------------
\* C1: when the initial readFiles() has rejected, neither watch session is
\* open, no listener is registered, and no site action other than readFiles
\* has been invoked.
C1_NoWatchAfterFailedRead ==
    readFilesRejected =>
        /\ ~watcher.open /\ ~themeWatcher.open
        /\ watcher.listeners = {} /\ themeWatcher.listeners = {}
        /\ \A i \in CallIds : calls[i].fn = "readFiles"

\* C2: every 'change' event of the ready theme session has invoked readTheme()
\* exactly once, and a build() exists for an event only once that event's own
\* readTheme(), invoked before it, has resolved.
C2_BuildOnlyAfterReadTheme ==
    /\ \A j \in EventIds :
          (events[j].session = "theme" /\ events[j].kind = "change" /\ events[j].ready)
          => Cardinality({i \in CallsOf(j) : calls[i].fn = "readTheme"}) = 1
    /\ \A b \in CallIds :
          calls[b].fn = "build"
          => \E r \in 1..(b - 1) : /\ calls[r].fn = "readTheme"
                                   /\ calls[r].ev = calls[b].ev
                                   /\ calls[r].state = "resolved"

C2_Witness ==
    \E b \in CallIds : /\ calls[b].fn = "build"
                       /\ events[calls[b].ev].kind = "change"
                       /\ events[calls[b].ev].session = "theme"

\* C3: every event the ready source session delivered has invoked exactly one
\* site action: fileAdded for 'add', fileChanged for 'change', fileRemoved for
\* 'unlink', with the path of the event.
C3_OneMatchingAction ==
    \A j \in EventIds :
        (events[j].session = "source" /\ events[j].ready)
        => /\ Cardinality(CallsOf(j)) = 1
           /\ \A i \in CallsOf(j) :
                 /\ calls[i].path = events[j].path
                 /\ events[j].kind = "add" => calls[i].fn = "fileAdded"
                 /\ events[j].kind = "change" => calls[i].fn = "fileChanged"
                 /\ events[j].kind = "unlink" => calls[i].fn = "fileRemoved"

C3_Witness ==
    \E j \in EventIds :
        /\ events[j].session = "source" /\ events[j].ready
        /\ events[j].kind = "add" /\ events[j].path = P_a_md
        /\ \E i \in CallsOf(j) : calls[i].fn = "fileAdded"
        /\ Len(events) > 1

\* C4: no fileAdded/fileChanged/fileRemoved call carries a path equal to or
\* below the plugins, themes or destination directory, and a mutation the
\* source session dropped has left no event behind.
C4_NoActionUnderIgnoredRoot ==
    /\ \A i \in CallIds :
          calls[i].fn \in FileActions
          => \A root \in IgnoredRoots : ~containedIn(calls[i].path, root)
    /\ \A j \in EventIds :
          events[j].session = "source" => events[j].path \notin discarded

C4_Witness ==
    /\ config_path_destination \in discarded
    /\ \E i \in CallIds : calls[i].fn \in FileActions

\* C5: an event emitted by a ready session after a fileChanged() call has
\* rejected is dispatched as usual: a source event to its one file action, a
\* theme 'change' event to readTheme().
C5_DispatchAfterFailure ==
    \A j \in EventIds :
        (/\ events[j].ready
         /\ \E i \in events[j].rejected : calls[i].fn = "fileChanged")
        => /\ events[j].session = "source"
              => \E i \in CallsOf(j) :
                    /\ calls[i].path = events[j].path
                    /\ <<events[j].kind, calls[i].fn>> \in
                          {<<"add", "fileAdded">>, <<"change", "fileChanged">>,
                           <<"unlink", "fileRemoved">>}
           /\ (events[j].session = "theme" /\ events[j].kind = "change")
              => \E i \in CallsOf(j) : calls[i].fn = "readTheme"

C5_Witness ==
    \E j \in EventIds :
        /\ events[j].session = "source" /\ events[j].kind = "add"
        /\ \E i \in events[j].rejected : /\ calls[i].fn = "fileChanged"
                                         /\ calls[i].path # events[j].path
        /\ \E i \in CallsOf(j) : calls[i].fn = "fileAdded" /\ calls[i].state = "resolved"

\* C6 as stated: an 'add' or 'unlink' event of the ready theme session has
\* invoked readTheme(), as a 'change' event does.
C6_ThemeKindsAlike ==
    \A j \in EventIds :
        (events[j].session = "theme" /\ events[j].ready)
        => \E i \in CallsOf(j) : calls[i].fn = "readTheme"

\* C6 amended: of the events of the ready theme session only 'change' invokes
\* readTheme() (and build() after it); 'add' and 'unlink' invoke no site
\* action.
C6_OnlyThemeChangeRebuilds ==
    \A j \in EventIds :
        (events[j].session = "theme" /\ events[j].ready)
        => IF events[j].kind = "change"
           THEN /\ \E i \in CallsOf(j) : calls[i].fn = "readTheme"
                /\ \A i \in CallsOf(j) : calls[i].fn \in {"readTheme", "build"}
           ELSE CallsOf(j) = {}

C6_Witness ==
    /\ \E j \in EventIds : /\ events[j].session = "theme" /\ events[j].ready
                           /\ events[j].kind = "add" /\ CallsOf(j) = {}
    /\ \E j \in EventIds : /\ events[j].session = "theme" /\ events[j].ready
                           /\ events[j].kind = "change"
                           /\ \E i \in CallsOf(j) : calls[i].fn = "build"

\* C7: an event a session emitted before its ready signal has invoked no site
\* action, and a session that is not ready has no listener.
C7_NoActionBeforeReady ==
    /\ \A j \in EventIds : ~events[j].ready => CallsOf(j) = {}
    /\ ~watcher.ready => watcher.listeners = {}
    /\ ~themeWatcher.ready => themeWatcher.listeners = {}

C7_Witness ==
    /\ watcher.ready /\ themeWatcher.ready
    /\ \E j \in EventIds : events[j].session = "source" /\ ~events[j].ready
    /\ \E j \in EventIds : /\ events[j].session = "theme" /\ ~events[j].ready
                           /\ events[j].kind = "change"

\* C9: the source session drops a mutation exactly when its path is an
\* ignored root or lies below one by whole path segments: every dropped path
\* is contained in an ignored root, no emitted path is, so
\* /proj/src/theme/file.txt is only ever dropped and
\* /proj/src/theme-extra/file.txt is only ever emitted.
C9_BoundaryAwareIgnore ==
    /\ \A p \in discarded : \E root \in IgnoredRoots : containedIn(p, root)
    /\ \A j \in EventIds :
          events[j].session = "source"
          => \A root \in IgnoredRoots : ~containedIn(events[j].path, root)
    /\ P_theme_extra_file \notin discarded

C9_Witness ==
    /\ P_theme_file \in discarded
    /\ \E j \in EventIds : /\ events[j].session = "source"
                           /\ events[j].path = P_theme_extra_file

\* C8: every result of the resolver holds exactly the declared names that
\* consist of the prefix "yarn-" followed by at least one more character;
\* for dependencies {yarn-excerpt, lodash} and devDependencies
\* {yarn-html-minifier, mocha, yarn-scaffold} that is {yarn-excerpt,
\* yarn-html-minifier, yarn-scaffold}.
Declared(pkg) == UNION {pkg[k] : k \in DOMAIN pkg}

ConventionNames(names) ==
    {n \in names : /\ Len(n) > Len(YARN_PREFIX)
                   /\ \A c \in 1..Len(YARN_PREFIX) : n[c] = YARN_PREFIX[c]}

ExampleManifest ==
    [k \in {"dependencies", "devDependencies"} |->
        IF k = "dependencies" THEN {N_yarn_excerpt, N_lodash}
        ELSE {N_yarn_html_minifier, N_mocha, N_yarn_scaffold}]

C8_ExactlyConventionNames ==
    \A r \in 1..Len(plugins) :
        /\ ~plugins[r].threw
        /\ Range(plugins[r].names) = ConventionNames(Declared(packageJson))
        /\ YARN_PREFIX \notin Range(plugins[r].names)
        /\ packageJson = ExampleManifest
           => Range(plugins[r].names) = {N_yarn_excerpt, N_yarn_html_minifier, N_yarn_scaffold}

C8_Witness ==
    /\ Len(plugins) > 0
    /\ packageJson = ExampleManifest

\* C10: on a manifest that lacks a dependency list the resolver does not
\* fail and returns the plugin names of the lists that are present (none
\* when both are missing).
C10_MissingListIsEmpty ==
    \A r \in 1..Len(plugins) :
        DOMAIN packageJson # {"dependencies", "devDependencies"}
        => /\ ~plugins[r].threw
           /\ DOMAIN packageJson = {}
              => plugins[r].names = <<>>
           /\ \A k \in DOMAIN packageJson :
                 Range(plugins[r].names) = ConventionNames(packageJson[k])

C10_Witness ==
    /\ Len(plugins) > 0
    /\ DOMAIN packageJson = {"devDependencies"}
    /\ N_yarn_scaffold \in Range(plugins[1].names)

\* C11: while the initial readFiles() has not completed, no watch session is
\* open and no site action other than readFiles has been started.
C11_ReadFilesBlocks ==
    (\E i \in CallIds : calls[i].fn = "readFiles" /\ calls[i].state = "pending")
    => /\ ~watcher.open /\ ~themeWatcher.open
       /\ \A i \in CallIds : calls[i].fn = "readFiles"

\* C12: the file actions of the source session are invoked in the order in
\* which their events were emitted, whatever the state of the actions.
C12_DispatchInEmissionOrder ==
    \A i, k \in CallIds :
        (/\ calls[i].fn \in FileActions /\ calls[k].fn \in FileActions
         /\ calls[i].ev < calls[k].ev)
        => i < k

C12_Witness ==
    \E i, k \in CallIds :
        /\ calls[i].fn \in FileActions /\ calls[k].fn \in FileActions
        /\ calls[i].ev < calls[k].ev
        /\ calls[i].state = "pending" /\ calls[k].state = "resolved"

\* C13: the dispatch of a source event does not wait for the action of an
\* earlier event: whenever an earlier event's file action is still pending,
\* every later event of the ready source session already has its action
\* invoked, so that two actions are in flight at once.
C13_NoSerialization ==
    \A i \in CallIds :
        (calls[i].fn \in FileActions /\ calls[i].state = "pending")
        => \A j \in EventIds :
              (events[j].session = "source" /\ events[j].ready /\ j > calls[i].ev)
              => \E k \in CallsOf(j) : calls[k].fn \in FileActions

C13_Witness ==
    \E i, k \in CallIds :
        /\ i < k
        /\ calls[i].fn \in FileActions /\ calls[k].fn \in FileActions
        /\ calls[i].state = "pending" /\ calls[k].state = "pending"

\* C14: the source session has invoked as many file actions as it has
\* delivered events after ready, failures included, and an event for a path
\* whose earlier action had already rejected has its one action like any
\* other event.
C14_NoRetryNoPoison ==
    /\ Cardinality({i \in CallIds : calls[i].fn \in FileActions})
       = Cardinality({j \in EventIds : events[j].session = "source" /\ events[j].ready})
    /\ \A j \in EventIds :
          (/\ events[j].session = "source" /\ events[j].ready
           /\ \E i \in events[j].rejected : calls[i].path = events[j].path)
          => Cardinality({k \in CallsOf(j) : calls[k].path = events[j].path}) = 1

C14_Witness ==
    \E j \in EventIds :
        /\ events[j].session = "source" /\ events[j].ready
        /\ \E i \in events[j].rejected : calls[i].path = events[j].path
        /\ \E k \in CallsOf(j) : calls[k].state = "rejected"

\* C15 as stated: no build() has been started while any readTheme() invoked
\* before it was still in flight.
C15_NoBuildDuringAnyReadTheme ==
    \A b, r \in CallIds :
        (calls[b].fn = "build" /\ calls[r].fn = "readTheme" /\ r < b)
        => calls[r].state # "pending"

\* C15 amended: a build() is started only when the readTheme() of its own
\* event is no longer in flight; the readTheme() of another theme event may
\* still be pending at that moment.
C15_NoBuildDuringOwnReadTheme ==
    \A b, r \in CallIds :
        (calls[b].fn = "build" /\ calls[r].fn = "readTheme" /\ calls[r].ev = calls[b].ev)
        => r < b /\ calls[r].state # "pending"

C15_Witness ==
    \E b, r \in CallIds :
        /\ calls[b].fn = "build" /\ calls[r].fn = "readTheme"
        /\ r < b /\ calls[r].ev # calls[b].ev
        /\ calls[r].state = "pending"

\* C17: there are never more build() calls than resolved readTheme() calls,
\* and the event of a rejected readTheme() has no build().
C17_NoBuildAfterFailedReadTheme ==
    /\ Cardinality({b \in CallIds : calls[b].fn = "build"})
       <= Cardinality({r \in CallIds : calls[r].fn = "readTheme" /\ calls[r].state = "resolved"})
    /\ \A r \in CallIds :
          (calls[r].fn = "readTheme" /\ calls[r].state = "rejected")
          => \A b \in CallIds : calls[b].fn = "build" => calls[b].ev # calls[r].ev

C17_Witness ==
    /\ \E r \in CallIds : calls[r].fn = "readTheme" /\ calls[r].state = "rejected"
    /\ \E b \in CallIds : calls[b].fn = "build"

\* C16: under fairness of the reactions, a readTheme() that has resolved is
\* eventually followed by a build() for the same theme event, and no theme
\* event ever has more than one build().
C16_ResolvedReadThemeLeadsToBuild ==
    /\ \A i \in 1..MaxCalls :
          (i \in CallIds /\ calls[i].fn = "readTheme" /\ calls[i].state = "resolved")
          ~> (i \in CallIds /\ \E b \in CallIds : /\ calls[b].fn = "build"
                                                    /\ calls[b].ev = calls[i].ev)
    /\ [](\A j \in EventIds :
             Cardinality({b \in CallsOf(j) : calls[b].fn = "build"}) <= 1)

C16_Witness ==
    \E r \in CallIds :
        /\ calls[r].fn = "readTheme" /\ calls[r].state = "resolved" /\ calls[r].reacted
        /\ events[calls[r].ev].kind = "change" /\ events[calls[r].ev].ready
        /\ Cardinality({b \in CallsOf(calls[r].ev) : calls[b].fn = "build"}) = 1

\* C18: every result of the resolver holds each name once, also a name that
\* is in both dependency lists; all results for one manifest are the same
\* set, and that set is the one obtained by reading the two lists in the
\* other order.
C18_SetSemantics ==
    /\ \A r \in 1..Len(plugins) :
          /\ Len(plugins[r].names) = Cardinality(Range(plugins[r].names))
          /\ Range(plugins[r].names)
             = Range(collect(packageJson, <<"devDependencies", "dependencies">>, <<>>))
    /\ \A r1, r2 \in 1..Len(plugins) :
          Range(plugins[r1].names) = Range(plugins[r2].names)

C18_Witness ==
    /\ Len(plugins) >= 2
    /\ DOMAIN packageJson = {"dependencies", "devDependencies"}
    /\ N_yarn_excerpt \in packageJson["dependencies"] \cap packageJson["devDependencies"]
    /\ N_yarn_excerpt \in Range(plugins[2].names)

====
